---- MODULE Spec2Model ----
(***************************************************************************)
(* The Pong demo's bus and display (pong/src/main.rs), and                 *)
(* the NES synchronizer (nes/src/nes.rs): Nes::insert, Nes::tick,          *)
(* Nes::fps_max, FrameTiming and the Debug trace line.  The CPU            *)
(* (mos6502 crate) and the PPU (crate::ppu) are collaborators whose code   *)
(* is outside nes.rs; they are modelled from their documented contracts.   *)
(***************************************************************************)
EXTENDS Integers, Sequences, FiniteSets, TLC

VARIABLES
  machine,      \* Mos6502: [cycles] the cumulative CPU cycle counter
  ppu,          \* Ppu: [scanline, cycle, vblank, nmi_enable, frame]
  host,         \* HostSystem: [now] its clock, [frame] the last frame given to render
  timing,       \* FrameTiming: [frame_n, last_frame_timestamp, frame_limit_ms]
  shutdown,     \* Shutdown: "Yes", "No" or "Reset"
  SHOW_FPS,     \* lazy_static SHOW_FPS, fixed for the life of the process
  ppu_event,    \* the TickEvent returned by ppu.tick in the last Nes::tick
  polled,       \* what host.poll_events returned in the last Nes::tick, "none" if not called
  dots,         \* total number of dots passed to ppu.tick so far
  crossed,      \* how many event boundaries the last ppu.tick passed
  calls,        \* how often so far: EnteredVblank returned, host.render and host.poll_events called
  log,          \* the calls made by the last Nes::tick, in program order
  bus,          \* PongBus: [ram, display], display the DisplayBuffer's fields
  pong          \* the last iteration of the Pong main loop: its access and outcome

nesvars == <<machine, ppu, host, timing, shutdown, SHOW_FPS, ppu_event, polled, dots, crossed, calls, log>>

vars == <<machine, ppu, host, timing, shutdown, SHOW_FPS, ppu_event, polled, dots, crossed, calls, log,
          bus, pong>>

----------------------------------------------------------------------------
\* Bounds of the model
MaxCycles == 130          \* Spec: ticks stop once machine.cycles would pass this
MaxFrameCycles == 57200   \* SpecFrames: enough for two VBlanks
MaxDmaCycles == 27930    \* SpecDma: one VBlank and the tick after it
MaxPongTicks == 6         \* SpecPong: iterations of the Pong main loop
MaxBusTicks == 3          \* SpecPongBus: iterations of the Pong main loop
MaxTime == 20           \* the host clock is not advanced past this

\* Program constants
DEFAULT_FPS_MAX == 60
StartupCycles == 7

\* PPU geometry
DotsPerScanline == 341
ScanlinesPerFrame == 262
VisibleScanlines == 240
VblankScanline == 241
PreRenderScanline == 261
NotifyDot == 260

FrameDots == ScanlinesPerFrame * DotsPerScanline

\* Inputs
CpuCycleChoices == 2..7           \* cycles of one CPU instruction
LongCycleChoices == {7}           \* a program of 7-cycle instructions only
RegOps == {"none", "ctrl_nmi_on", "ctrl_nmi_off", "read_status"}
OamDmaCycles == {518}             \* STA $4014: 4 cycles and the 514 of a stall begun on an odd cycle
PollResults == {"No", "Yes", "Reset"}
ClockSteps == {0, 5}        \* how far the host clock moves between two readings
FpsChoices == {60, 200}

NoDelay == -1
NoOverlay == -1

----------------------------------------------------------------------------
\* A call made by Nes::tick
Call(op, arg) == [op |-> op, arg |-> arg]

Count(l, op) == Cardinality({i \in 1..Len(l) : l[i].op = op})
Has(l, op) == \E i \in 1..Len(l) : l[i].op = op
Pos(l, op) == CHOOSE i \in 1..Len(l) : l[i].op = op
Arg(l, op) == l[Pos(l, op)].arg
Before(l, a, b) == \A i, j \in 1..Len(l) : (l[i].op = a /\ l[j].op = b) => i < j

BoolInt(b) == IF b THEN 1 ELSE 0

\* How many borrows of the shared PPU cell are alive after the first i calls
BorrowDepth(l, i) ==
  Count(SubSeq(l, 1, i), "borrow_mut") - Count(SubSeq(l, 1, i), "drop")

\* The calls of Nes::tick that go through the borrowed PPU
PpuUses == {"ppu_tick", "draw", "render", "nmi_on_vblank"}

----------------------------------------------------------------------------
\* FrameTiming

FrameTimingNew ==
  [frame_n |-> 0, last_frame_timestamp |-> 0,
   frame_limit_ms |-> 1000 \div DEFAULT_FPS_MAX]

fps_avg(t, elapsed) ==
  LET secs == elapsed \div 1000
  IN IF secs # 0 THEN t.frame_n \div secs ELSE 0

\* post_render asking for the whole period instead of what remains of it
post_render_WholePeriod(t, elapsed) ==
  IF t.last_frame_timestamp # 0
     /\ elapsed - t.last_frame_timestamp < t.frame_limit_ms
  THEN t.frame_limit_ms
  ELSE NoDelay


post_render(t, elapsed) ==
  IF t.last_frame_timestamp # 0
     /\ elapsed - t.last_frame_timestamp < t.frame_limit_ms
  THEN t.frame_limit_ms - (elapsed - t.last_frame_timestamp)
  ELSE NoDelay

\* post_delay stamping the clock without counting the frame
post_delay_NoCount(t, elapsed) ==
  [t EXCEPT !.last_frame_timestamp = elapsed]

post_delay(t, elapsed) ==
  [t EXCEPT !.frame_n = @ + 1, !.last_frame_timestamp = elapsed]

----------------------------------------------------------------------------
\* Ppu

PpuNew ==
  [scanline |-> 0, cycle |-> 0, vblank |-> FALSE, nmi_enable |-> FALSE,
   frame |-> [pic |-> 0, overlay |-> NoOverlay]]

Linear(p) == p.scanline * DotsPerScanline + p.cycle

VblankDot == VblankScanline * DotsPerScanline + 1
ClearDot == PreRenderScanline * DotsPerScanline + 1

\* The number of dots, 1..FrameDots, after which the beam is next on the dot `at`
Dist(p, at) == ((at - Linear(p) - 1) % FrameDots) + 1

\* The offsets 1..n of a tick of n dots at which the mapper is notified of a
\* visible scanline
Notifying(p, n) ==
  LET first == ((NotifyDot - p.cycle - 1) % DotsPerScanline) + 1
  IN IF first > n THEN {}
     ELSE {i \in {first + DotsPerScanline * k : k \in 0..((n - first) \div DotsPerScanline)} :
             ((Linear(p) + i) % FrameDots) \div DotsPerScanline < VisibleScanlines}

Min(S) == CHOOSE x \in S : \A y \in S : x <= y

\* Ppu::tick(n) with the mapper's answer to notify_scanline: the PPU after
\* n dots and the first qualifying event of the call
PpuTick(p, n, irq) ==
  LET set == Dist(p, VblankDot)
      clr == Dist(p, ClearDot)
      ntf == IF irq THEN Notifying(p, n) ELSE {}
      end == (Linear(p) + n) % FrameDots
      v   == IF set <= n /\ (clr > n \/ clr < set) THEN TRUE
             ELSE IF clr <= n THEN FALSE
             ELSE p.vblank
      ev  == IF set <= n /\ (ntf = {} \/ set < Min(ntf)) THEN "EnteredVblank"
             ELSE IF ntf # {} THEN "TriggerIrq"
             ELSE "None"
  IN [ppu |-> [p EXCEPT !.scanline = end \div DotsPerScanline,
                        !.cycle = end % DotsPerScanline,
                        !.vblank = v,
                        !.frame.pic = IF set <= n THEN 1 - @ ELSE @],
      event |-> ev]

\* The event boundaries a tick of n dots passes: the VBlank dot and the
\* scanline notifications the mapper answers with an IRQ
Qualifying(p, n, irq) ==
  BoolInt(Dist(p, VblankDot) <= n)
  + (IF irq THEN Cardinality(Notifying(p, n)) ELSE 0)

nmi_on_vblank(p) == p.nmi_enable

\* The PPU register access of one CPU instruction through the bus
BusAccess(p, op) ==
  CASE op = "ctrl_nmi_on"  -> [p EXCEPT !.nmi_enable = TRUE]
    [] op = "ctrl_nmi_off" -> [p EXCEPT !.nmi_enable = FALSE]
    [] op = "read_status"  -> [p EXCEPT !.vblank = FALSE]
    [] OTHER               -> p

\* fonts::draw on ppu.frame_mut()
DrawOverlay(p, text) == [p EXCEPT !.frame.overlay = text]

----------------------------------------------------------------------------
\* HostSystem

\* What elapsed_millis may return when the clock last read `now`
Readings(now) == {t \in {now + s : s \in ClockSteps} : t <= MaxTime}

\* The clock after host.delay(d): a sleeping host, or a stub that returns at once
AfterDelay(now, d) == {t \in {now, now + d} : t <= MaxTime}

----------------------------------------------------------------------------
\* The Pong demo (pong/src/main.rs): PongBus, DisplayBuffer, Rom

WIDTH == 240
HEIGHT == 192
RamSize == 32768          \* ram: [u8; 0x8000]
RomSize == 23168          \* rom: [u8; 0x5a80]
DisplayBase == 32768      \* 0x8000
RomBase == 42368          \* 0xA580
LastAddress == 65535      \* 0xFFFF, the largest u16

\* Inputs: the bytes a program stores to the display ports, and the
\* addresses and bytes of a program that touches every region's edges
ByteChoices == {0, 1, 2, 3, 240}
PongAddresses == {0, 32767, 32768, 32769, 32770, 32771, 32772, 42367, 42368, 65535}
BusByteChoices == {0, 3}

\* An array of bytes, kept as the function of its non-zero cells
Zeroed == [i \in {} |-> 0]

Put(a, i, v) ==
  IF v = 0
  THEN [j \in DOMAIN a \ {i} |-> a[j]]
  ELSE [j \in DOMAIN a \cup {i} |-> IF j = i THEN v ELSE a[j]]

\* DisplayPort::from_u16
DisplayPortFromU16(val) ==
  CASE val = 0 -> "PortX"
    [] val = 1 -> "PortY"
    [] val = 2 -> "PortColor"
    [] val = 3 -> "PortCommand"
    [] OTHER -> "panic"

\* DisplayCommand::from_u8
DisplayCommandFromU8(val) ==
  CASE val = 0 -> "Nop"
    [] val = 1 -> "Draw"
    [] val = 2 -> "Clear"
    [] val = 3 -> "Flush"
    [] OTHER -> "panic"

\* DisplayBuffer::new
DisplayBufferNew ==
  [buffer |-> Zeroed, port_x |-> 0, port_y |-> 0, port_color |-> 0,
   port_command |-> 0, was_updated |-> FALSE]

\* What a call on the bus yields: the state it leaves, the panic it died
\* of ("none" if it returned) and the display command it executed
Served(s, cmd) == [state |-> s, fault |-> "none", executed |-> cmd]
Panicked(s, why, cmd) == [state |-> s, fault |-> why, executed |-> cmd]

\* DisplayBuffer::draw
DisplayDraw(d) ==
  LET index == d.port_y * WIDTH + d.port_x
  IN IF index < WIDTH * HEIGHT
     THEN Served([d EXCEPT !.buffer = Put(@, index, d.port_color)], "Draw")
     ELSE Panicked(d, "index out of bounds", "Draw")

\* DisplayBuffer::clear
DisplayClear(d) == [d EXCEPT !.buffer = Zeroed]

\* The store to the port that DisplayBuffer::write8 begins with
StorePort(d, val, port) ==
  CASE port = "PortX" -> [d EXCEPT !.port_x = val]
    [] port = "PortY" -> [d EXCEPT !.port_y = val]
    [] port = "PortColor" -> [d EXCEPT !.port_color = val]
    [] port = "PortCommand" -> [d EXCEPT !.port_command = val]

\* DisplayBuffer::write8 that leaves the command in its port
DisplayWrite8_NoReset(d, val, address) ==
  LET port == DisplayPortFromU16(address)
  IN IF port = "panic"
     THEN Panicked(d, "invalid display port", "none")
     ELSE LET d1 == StorePort(d, val, port)
              cmd == DisplayCommandFromU8(d1.port_command)
          IN CASE cmd = "panic" -> Panicked(d1, "invalid display command", "none")
               [] cmd = "Draw" -> DisplayDraw(d1)
               [] cmd = "Flush" -> Served([d1 EXCEPT !.was_updated = TRUE], "Flush")
               [] cmd = "Clear" -> Served(DisplayClear(d1), "Clear")
               [] OTHER -> Served(d1, "Nop")

\* DisplayBuffer::write8
DisplayWrite8(d, val, address) ==
  LET port == DisplayPortFromU16(address)
  IN IF port = "panic"
     THEN Panicked(d, "invalid display port", "none")
     ELSE LET d1 == StorePort(d, val, port)
              cmd == DisplayCommandFromU8(d1.port_command)
              r == CASE cmd = "panic" -> Panicked(d1, "invalid display command", "none")
                     [] cmd = "Draw" -> DisplayDraw(d1)
                     [] cmd = "Flush" -> Served([d1 EXCEPT !.was_updated = TRUE], "Flush")
                     [] cmd = "Clear" -> Served(DisplayClear(d1), "Clear")
                     [] OTHER -> Served(d1, "Nop")
          IN IF r.fault = "none"
             THEN [r EXCEPT !.state = [@ EXCEPT !.port_command = 0]]
             ELSE r

\* DisplayBuffer::was_updated that leaves the flag set
WasUpdated_NoClear(d) == [result |-> d.was_updated, display |-> d]

\* DisplayBuffer::was_updated
WasUpdated(d) == [result |-> d.was_updated, display |-> [d EXCEPT !.was_updated = FALSE]]

\* PongBus::new
PongBusNew == [ram |-> Zeroed, display |-> DisplayBufferNew]

\* PongBus::map_address
MapAddress(address) ==
  CASE address <= DisplayBase - 1 -> [region |-> "Ram", offset |-> address]
    [] address <= RomBase - 1 -> [region |-> "Display", offset |-> address - DisplayBase]
    [] OTHER -> [region |-> "Rom", offset |-> address - RomBase]

\* <PongBus as Bus>::read8
BusRead8(b, address) ==
  LET m == MapAddress(address)
  IN CASE m.region = "Ram" ->
            IF m.offset < RamSize THEN Served(b, "none")
            ELSE Panicked(b, "index out of bounds", "none")
       [] m.region = "Display" -> Panicked(b, "cannot read from display buffer", "none")
       [] m.region = "Rom" ->
            IF m.offset < RomSize THEN Served(b, "none")
            ELSE Panicked(b, "index out of bounds", "none")

\* <PongBus as Bus>::write8
BusWrite8(b, val, address) ==
  LET m == MapAddress(address)
  IN CASE m.region = "Ram" ->
            IF m.offset < RamSize THEN Served([b EXCEPT !.ram = Put(@, m.offset, val)], "none")
            ELSE Panicked(b, "index out of bounds", "none")
       [] m.region = "Display" ->
            LET r == DisplayWrite8(b.display, val, m.offset)
            IN [r EXCEPT !.state = [b EXCEPT !.display = r.state]]
       [] m.region = "Rom" -> Panicked(b, "cannot write to ROM", "none")

\* The main loop before its first iteration
PongIdle ==
  [ticks |-> 0, kind |-> "none", address |-> 0, val |-> 0, region |-> "none", offset |-> 0,
   executed |-> "none", fault |-> "none", presented |-> FALSE]

----------------------------------------------------------------------------
\* Nes

Init ==
  /\ machine = [cycles |-> StartupCycles]
  /\ ppu = PpuNew
  /\ host = [now |-> 0, frame |-> [pic |-> 0, overlay |-> NoOverlay]]
  /\ timing = FrameTimingNew
  /\ shutdown = "No"
  /\ SHOW_FPS \in BOOLEAN
  /\ ppu_event = "None"
  /\ polled = "none"
  /\ dots = 0
  /\ crossed = 0
  /\ calls = [vblank |-> 0, render |-> 0, poll_events |-> 0]
  /\ log = <<>>
  /\ bus = PongBusNew
  /\ pong = PongIdle

\* Nes::powered_on
PoweredOn == shutdown # "Yes"

\* PpuCredit crediting 2 dots per cycle
PpuCredit_TwoDots(cpu_cycles) == cpu_cycles * 2

\* The dots Nes::tick passes to ppu.tick for an instruction of cpu_cycles
PpuCredit(cpu_cycles) == cpu_cycles * 3

\* RenderFrame with the frame taken before the overlay was drawn
RenderFrame_Stale(before, after) == before

\* The frame host.render receives: ppu.frame(), read after the overlay was
\* drawn on the frame `before`, giving `after`
RenderFrame(before, after) == after

\* Handoff polling the host before it renders
Handoff_PollFirst(show, fps, pic, t1, d, t3, nmi) ==
  (IF show THEN <<Call("draw", fps)>> ELSE <<>>)
  \o <<Call("poll_events", 0), Call("render", pic), Call("post_render", t1)>>
  \o (IF d # NoDelay THEN <<Call("delay", d)>> ELSE <<>>)
  \o <<Call("post_delay", t3), Call("nmi_on_vblank", BoolInt(nmi))>>
  \o (IF nmi THEN <<Call("nmi", 0)>> ELSE <<>>)

\* Handoff raising the NMI without looking at nmi_on_vblank()
Handoff_NmiAlways(show, fps, pic, t1, d, t3, nmi) ==
  (IF show THEN <<Call("draw", fps)>> ELSE <<>>)
  \o <<Call("render", pic), Call("poll_events", 0), Call("post_render", t1)>>
  \o (IF d # NoDelay THEN <<Call("delay", d)>> ELSE <<>>)
  \o <<Call("post_delay", t3), Call("nmi_on_vblank", BoolInt(nmi)), Call("nmi", 0)>>

\* The calls of the EnteredVblank branch of Nes::tick, in program order:
\* show/fps the FPS overlay, pic the frame rendered, t1 the clock read for
\* post_render, d its answer, t3 the clock read for post_delay, nmi the
\* answer of ppu.nmi_on_vblank()
Handoff(show, fps, pic, t1, d, t3, nmi) ==
  (IF show THEN <<Call("draw", fps)>> ELSE <<>>)
  \o <<Call("render", pic), Call("poll_events", 0), Call("post_render", t1)>>
  \o (IF d # NoDelay THEN <<Call("delay", d)>> ELSE <<>>)
  \o <<Call("post_delay", t3), Call("nmi_on_vblank", BoolInt(nmi))>>
  \o (IF nmi THEN <<Call("nmi", 0)>> ELSE <<>>)

\* Epilogue raising the IRQ on any PPU event
Epilogue_IrqOnAnyEvent(ev, sd) ==
  (IF ev # "None" THEN <<Call("irq", 0)>> ELSE <<>>)
  \o (IF sd = "Reset" THEN <<Call("reset", 0)>> ELSE <<>>)

\* Epilogue resetting the CPU on Shutdown as well
Epilogue_ResetOnYes(ev, sd) ==
  (IF ev = "TriggerIrq" THEN <<Call("irq", 0)>> ELSE <<>>)
  \o (IF sd # "No" THEN <<Call("reset", 0)>> ELSE <<>>)

\* The end of Nes::tick: the TriggerIrq branch, then the Reset request
Epilogue(ev, sd) ==
  (IF ev = "TriggerIrq" THEN <<Call("irq", 0)>> ELSE <<>>)
  \o (IF sd = "Reset" THEN <<Call("reset", 0)>> ELSE <<>>)

\* AfterReset leaving the Reset request in the flag
AfterReset_Sticky(sd) == sd

\* AfterReset clearing a Shutdown request too
AfterReset_ClearAll(sd) == "No"

\* self.shutdown when Nes::tick returns
AfterReset(sd) == IF sd = "Reset" THEN "No" ELSE sd

Counted(c, l, ev) ==
  [vblank      |-> c.vblank + BoolInt(ev = "EnteredVblank"),
   render      |-> c.render + Count(l, "render"),
   poll_events |-> c.poll_events + Count(l, "poll_events")]

\* CpuThenPpu with the PPU advanced before the instruction's bus access
PpuThenCpu(p, op, n, irq) ==
  LET r == PpuTick(p, n, irq)
  IN [ppu |-> BusAccess(r.ppu, op), event |-> r.event]

\* machine.tick() and then ppu.tick(n): the instruction's PPU register access
\* op is made before the PPU is advanced
CpuThenPpu(p, op, n, irq) == PpuTick(BusAccess(p, op), n, irq)

\* Prologue borrowing the PPU before the CPU instruction runs
Prologue_BorrowFirst(cpu_cycles, n) ==
  <<Call("borrow_mut", 0), Call("cpu_tick", cpu_cycles), Call("ppu_tick", n)>>

\* The start of Nes::tick: the CPU instruction, the exclusive borrow of the
\* shared PPU, the PPU advance
Prologue(cpu_cycles, n) ==
  <<Call("cpu_tick", cpu_cycles), Call("borrow_mut", 0), Call("ppu_tick", n)>>

\* The return of Nes::tick, where the borrow of the PPU is dropped
Release == <<Call("drop", 0)>>

\* Nes::tick, for a CPU instruction of c cycles that makes the PPU register
\* access op, while machine.cycles stays within max
Tick(c, op, max) ==
  /\ machine.cycles + c <= max
  /\ \E irq \in (IF Notifying(BusAccess(ppu, op), PpuCredit(c)) # {} THEN BOOLEAN ELSE {FALSE}) :
       LET cpu_cycles == c
           n  == PpuCredit(cpu_cycles)
           r  == CpuThenPpu(ppu, op, n, irq)
           p1 == r.ppu
           head == Prologue(cpu_cycles, n)
       IN /\ machine' = [machine EXCEPT !.cycles = @ + cpu_cycles]
          /\ dots' = dots + n
          /\ crossed' = Qualifying(BusAccess(ppu, op), n, irq)
          /\ ppu_event' = r.event
          /\ SHOW_FPS' = SHOW_FPS
          /\ IF r.event = "EnteredVblank"
             THEN \E t0 \in (IF SHOW_FPS THEN Readings(host.now) ELSE {host.now}) :
                  \E res \in PollResults :
                  \E t1 \in Readings(t0) :
                    LET fps == fps_avg(timing, t0)
                        p2 == IF SHOW_FPS THEN DrawOverlay(p1, fps) ELSE p1
                        d  == post_render(timing, t1)
                    IN \E t2 \in (IF d # NoDelay THEN AfterDelay(t1, d) ELSE {t1}) :
                       \E t3 \in Readings(t2) :
                         /\ ppu' = p2
                         /\ host' = [now |-> t3, frame |-> RenderFrame(p1.frame, p2.frame)]
                         /\ timing' = post_delay(timing, t3)
                         /\ polled' = res
                         /\ shutdown' = AfterReset(res)
                         /\ log' = head
                                   \o Handoff(SHOW_FPS, fps, RenderFrame(p1.frame, p2.frame).pic,
                                              t1, d, t3, nmi_on_vblank(p2))
                                   \o Epilogue(r.event, res) \o Release
             ELSE /\ ppu' = p1
                  /\ polled' = "none"
                  /\ shutdown' = AfterReset(shutdown)
                  /\ log' = head \o Epilogue(r.event, shutdown) \o Release
                  /\ UNCHANGED <<host, timing>>
          /\ calls' = Counted(calls, log', r.event)
  /\ UNCHANGED <<bus, pong>>

\* Nes::fps_max
FpsMax(f) ==
  /\ timing' = [timing EXCEPT !.frame_limit_ms = 1000 \div f]
  /\ UNCHANGED <<machine, ppu, host, shutdown, SHOW_FPS, ppu_event, polled, dots, crossed, calls, log>>
  /\ UNCHANGED <<bus, pong>>

\* The PPU:scanline,dot and CYC fields of the Debug trace line
DebugTrace ==
  [scanline |-> ppu.scanline, ppu_cycle |-> ppu.cycle + 21, cyc |-> machine.cycles]

\* A program of any instructions, for MaxCycles CPU cycles from power-on
Next ==
  \/ \E c \in CpuCycleChoices, op \in RegOps : Tick(c, op, MaxCycles)
  \/ \E f \in FpsChoices : FpsMax(f)

Spec == Init /\ [][Next]_vars

\* A program of LongCycleChoices instructions, through two frames
NextFrames ==
  \/ \E c \in LongCycleChoices, op \in RegOps : Tick(c, op, MaxFrameCycles)
  \/ \E f \in FpsChoices : FpsMax(f)

SpecFrames == Init /\ [][NextFrames]_vars

\* A program of 7-cycle instructions and OAMDMA writes, through one VBlank
NextDma ==
  \/ \E c \in LongCycleChoices, op \in RegOps : Tick(c, op, MaxDmaCycles)
  \/ \E c \in OamDmaCycles : Tick(c, "oamdma", MaxDmaCycles)
  \/ \E f \in FpsChoices : FpsMax(f)

SpecDma == Init /\ [][NextDma]_vars

----------------------------------------------------------------------------
\* Pong

\* The program as main has set it up: a new bus, no loop iteration yet
InitPong == Init /\ ~SHOW_FPS

\* One iteration of the main loop: machine.tick() runs an instruction that
\* makes one bus access (kind "read" or "write" of val at address) or none,
\* then the buffer is presented if was_updated() says so.  A panic ends the
\* process.
PongLoop(kind, address, val, max) ==
  /\ pong.fault = "none"
  /\ pong.ticks < max
  /\ LET m == MapAddress(address)
         r == CASE kind = "read" -> BusRead8(bus, address)
                [] kind = "write" -> BusWrite8(bus, val, address)
                [] OTHER -> Served(bus, "none")
         u == WasUpdated(r.state.display)
     IN /\ bus' = IF r.fault = "none" THEN [r.state EXCEPT !.display = u.display] ELSE r.state
        /\ pong' = [ticks |-> pong.ticks + 1,
                    kind |-> kind,
                    address |-> address,
                    val |-> val,
                    region |-> IF kind = "none" THEN "none" ELSE m.region,
                    offset |-> IF kind = "none" THEN 0 ELSE m.offset,
                    executed |-> r.executed,
                    fault |-> r.fault,
                    presented |-> r.fault = "none" /\ u.result]
  /\ UNCHANGED nesvars

\* A program that stores ByteChoices to the display ports
NextPong ==
  \/ PongLoop("none", 0, 0, MaxPongTicks)
  \/ \E a \in DisplayBase .. DisplayBase + 3, v \in ByteChoices :
       PongLoop("write", a, v, MaxPongTicks)

SpecPong == InitPong /\ [][NextPong]_vars

\* A program that reads and writes at the edges of every region
NextPongBus ==
  \/ \E a \in PongAddresses : PongLoop("read", a, 0, MaxBusTicks)
  \/ \E a \in PongAddresses, v \in BusByteChoices : PongLoop("write", a, v, MaxBusTicks)

SpecPongBus == InitPong /\ [][NextPongBus]_vars

----------------------------------------------------------------------------
\* C1: every Nes::tick advances the PPU exactly once, by 3 times the cycles
\* of its CPU instruction, so the dots credited in total are 3 times the CPU
\* cycles executed by the ticks (the 7 startup cycles of insert are not ticks).
C1_PpuCredit ==
  /\ dots = 3 * (machine.cycles - StartupCycles)
  /\ log # <<>> =>
       /\ Count(log, "cpu_tick") = 1
       /\ Count(log, "ppu_tick") = 1
       /\ Arg(log, "ppu_tick") = 3 * Arg(log, "cpu_tick")

C1_Witness == log # <<>> /\ Arg(log, "cpu_tick") = 5 /\ dots > 100

\* C2: host.render is called exactly once in a tick whose PPU event is
\* EnteredVblank and not at all in any other tick, and the frame it receives
\* is the PPU's framebuffer at that moment.
C2_RenderOncePerVblank ==
  /\ calls.render = calls.vblank
  /\ log # <<>> => Count(log, "render") = BoolInt(ppu_event = "EnteredVblank")
  /\ (log # <<>> /\ ppu_event = "EnteredVblank") =>
       /\ host.frame = ppu.frame
       /\ Arg(log, "render") = ppu.frame.pic

C2_Witness == ppu_event = "EnteredVblank" /\ calls.render = 2 /\ host.frame.overlay # NoOverlay

\* C3: host.poll_events is called exactly once per VBlank, after the render
\* of that VBlank and before the pacing delay, and in no other tick.
C3_PollOncePerVblank ==
  /\ calls.poll_events = calls.vblank
  /\ log # <<>> =>
       /\ Count(log, "poll_events") = BoolInt(ppu_event = "EnteredVblank")
       /\ (polled # "none") <=> (ppu_event = "EnteredVblank")
       /\ Before(log, "render", "poll_events")
       /\ Before(log, "poll_events", "post_render")
       /\ Before(log, "poll_events", "delay")

C3_Witness == polled = "No" /\ Has(log, "delay") /\ calls.poll_events = 2

\* C4: a tick that receives EnteredVblank does render, poll_events, the
\* pacing delay (if any), the timestamp and the NMI decision in that order,
\* and raises the NMI exactly if nmi_on_vblank() is true at that check; a
\* tick without EnteredVblank raises no NMI.
C4_HandoffOrder ==
  log # <<>> =>
    IF ppu_event = "EnteredVblank"
    THEN /\ Before(log, "render", "poll_events")
         /\ Before(log, "poll_events", "delay")
         /\ Before(log, "poll_events", "post_delay")
         /\ Before(log, "delay", "post_delay")
         /\ Before(log, "post_delay", "nmi_on_vblank")
         /\ Before(log, "nmi_on_vblank", "nmi")
         /\ Count(log, "post_delay") = 1
         /\ Count(log, "nmi_on_vblank") = 1
         /\ Count(log, "nmi") = Arg(log, "nmi_on_vblank")
         /\ Has(log, "nmi") <=> ppu.nmi_enable
    ELSE ~Has(log, "nmi")

C4_Witness == Has(log, "nmi") /\ Has(log, "delay") /\ polled = "Reset"

\* C5: an NMI is raised when NMI_enable and PPUSTATUS.V are both set, whether
\* V becomes set while NMI_enable is set or NMI_enable becomes set while V is
\* still set (the line is level-checked).
C5_NmiLevelChecked ==
  [][(ppu'.vblank /\ ppu'.nmi_enable /\ ~(ppu.vblank /\ ppu.nmi_enable))
       => Has(log', "nmi")]_vars

\* C6: the CPU IRQ is raised in a tick exactly if its PPU event is
\* TriggerIrq, and no tick raises both the NMI and the IRQ.
C6_IrqOnTrigger ==
  log # <<>> =>
    /\ Count(log, "irq") = BoolInt(ppu_event = "TriggerIrq")
    /\ ~(Has(log, "nmi") /\ Has(log, "irq"))

C6_Witness == Has(log, "irq") /\ ppu.nmi_enable

\* C7: the CPU is reset exactly once in the tick whose poll_events returned
\* Reset, and in no other tick; when that tick returns the shutdown flag is
\* No and powered_on() is true.
C7_ResetOnce ==
  log # <<>> =>
    /\ Count(log, "reset") = BoolInt(polled = "Reset")
    /\ polled = "Reset" => (shutdown = "No" /\ PoweredOn)

C7_Witness == polled = "Reset" /\ Has(log, "reset") /\ calls.poll_events = 1

\* C8: when poll_events returns Shutdown, powered_on() is false when the tick
\* returns; the shutdown flag changes only in a tick that enters VBlank, so
\* any other tick leaves powered_on() as it was.
C8_ShutdownAtVblank ==
  [][/\ polled' = "Yes" => ~PoweredOn'
     /\ ppu_event' # "EnteredVblank" => (PoweredOn' <=> PoweredOn)
     /\ shutdown' # shutdown =>
          (machine' # machine /\ ppu_event' = "EnteredVblank" /\ polled' # "none")]_vars

C8_Witness == ~PoweredOn /\ polled = "none" /\ ppu_event = "TriggerIrq"

\* C9 as stated: after every render, host.delay is called once with the
\* remaining interval if the time since the previous timestamp is below the
\* target period, and not otherwise.
C9_DelayAfterEachRender ==
  [][(machine' # machine /\ ppu_event' = "EnteredVblank") =>
       LET delta == Arg(log', "post_render") - timing.last_frame_timestamp
           limit == timing.frame_limit_ms
       IN IF delta < limit
          THEN Count(log', "delay") = 1 /\ Arg(log', "delay") = limit - delta
          ELSE ~Has(log', "delay")]_vars

\* C9 amended: after a render, host.delay is called once with the remaining
\* interval if the previous timestamp is not 0 and the time since it is
\* below the target period; otherwise, and in every tick without a render,
\* host.delay is not called.
C9_DelayRemaining ==
  [][machine' # machine =>
       IF ppu_event' = "EnteredVblank"
       THEN LET delta == Arg(log', "post_render") - timing.last_frame_timestamp
                limit == timing.frame_limit_ms
            IN IF timing.last_frame_timestamp # 0 /\ delta < limit
               THEN Count(log', "delay") = 1 /\ Arg(log', "delay") = limit - delta
               ELSE ~Has(log', "delay")
       ELSE ~Has(log', "delay")]_vars

C9_Witness ==
  /\ Has(log, "delay") /\ Arg(log, "delay") = 11
  /\ timing.frame_limit_ms = 16 /\ calls.render = 2

\* C10: the trace line prints the cumulative CPU cycles as CYC and the beam
\* position after 3 x CYC dots: a dot in 0..340 equal to (3 x CYC) mod 341 on
\* the scanline that many dots reach.
C10_TraceBeam ==
  /\ DebugTrace.cyc = StartupCycles + dots \div 3
  /\ DebugTrace.ppu_cycle \in 0..340
  /\ DebugTrace.ppu_cycle = (3 * DebugTrace.cyc) % 341
  /\ DebugTrace.scanline = ((3 * DebugTrace.cyc) \div 341) % 262

\* C11: every Nes::tick credits the PPU fewer dots than one scanline has,
\* also for an instruction that triggers OAMDMA, so one ppu.tick passes at
\* most one event boundary and no EnteredVblank is lost behind another event.
C11_TickWithinScanline ==
  log # <<>> =>
    /\ Arg(log, "ppu_tick") < 341
    /\ crossed <= 1
    /\ (crossed >= 1) <=> (ppu_event # "None")

\* C12: in every Nes::tick the CPU instruction, with its PPU register
\* accesses, runs before the PPU is advanced, and the advance is complete
\* when the tick returns: a tick that enters VBlank leaves PPUSTATUS.V set
\* even if its instruction read PPUSTATUS, and the beam seen by the next
\* instruction stands at all the dots credited so far.
C12_CpuBeforePpu ==
  /\ Linear(ppu) = dots % FrameDots
  /\ log # <<>> =>
       /\ Pos(log, "cpu_tick") = 1
       /\ Before(log, "cpu_tick", "ppu_tick")
       /\ ppu_event = "EnteredVblank" => ppu.vblank

C12_Witness ==
  /\ ppu_event = "EnteredVblank" /\ ppu.vblank /\ ppu.nmi_enable
  /\ Has(log, "nmi") /\ calls.vblank = 1

\* C13: while Nes::tick holds the exclusive borrow of the shared PPU, from
\* the PPU tick to its return, no CPU instruction runs and the PPU is ticked
\* once; every use of the PPU goes through that one borrow, which is never
\* taken twice and is dropped at the return.
C13_NoReentrancy ==
  log # <<>> =>
    /\ \A i \in 1..Len(log) :
         /\ BorrowDepth(log, i) \in {0, 1}
         /\ log[i].op = "cpu_tick" => BorrowDepth(log, i) = 0
         /\ log[i].op \in PpuUses => BorrowDepth(log, i) = 1
    /\ Count(log, "borrow_mut") = 1
    /\ Count(log, "ppu_tick") = 1
    /\ Count(log, "cpu_tick") = 1
    /\ log[Len(log)].op = "drop"

C13_Witness == Has(log, "draw") /\ Has(log, "nmi") /\ Has(log, "reset") /\ BorrowDepth(log, 3) = 1

\* C14: a VBlank handoff increments the frame counter by one and sets the
\* last-frame timestamp to the host clock read after the pacing delay; the
\* frame counter equals the number of handoffs and a tick that does not
\* enter VBlank changes neither field.
C14_FrameStamp ==
  [][/\ timing'.frame_n = calls'.vblank
     /\ machine' # machine =>
          IF ppu_event' = "EnteredVblank"
          THEN /\ timing'.frame_n = timing.frame_n + 1
               /\ timing'.last_frame_timestamp = Arg(log', "post_delay")
               /\ timing'.last_frame_timestamp = host'.now
               /\ timing'.last_frame_timestamp >= Arg(log', "post_render")
               /\ Before(log', "delay", "post_delay")
          ELSE timing' = timing]_vars

C14_Witness ==
  /\ timing.frame_n = 2 /\ Has(log, "delay")
  /\ timing.last_frame_timestamp > Arg(log, "post_render")

\* C15: the shutdown flag is never Reset when a Nes::tick has returned: it
\* is No or Yes, and a tick whose poll_events did not return Reset does not
\* reset the CPU.
C15_NoPendingReset ==
  /\ shutdown \in {"No", "Yes"}
  /\ (log # <<>> /\ polled # "Reset") => ~Has(log, "reset")

C15_Witness == polled = "Reset" /\ shutdown = "No" /\ calls.poll_events = 2

\* C16: map_address sends every address to exactly one of RAM
\* [0x0000,0x8000), display [0x8000,0xA580) and ROM [0xA580,0xFFFF] with an
\* offset that is a valid index of that region (RAM 0x8000 bytes, display
\* ports 0..3, ROM 0x5a80 bytes), so that a write to RAM or display and a
\* read of RAM or ROM is served without an out-of-range access.
C16_OffsetsInRange ==
  pong.kind # "none" =>
    LET a == pong.address
        served == \/ pong.kind = "write" /\ pong.region \in {"Ram", "Display"}
                  \/ pong.kind = "read" /\ pong.region \in {"Ram", "Rom"}
    IN /\ a \in 0 .. LastAddress
       /\ pong.region = "Ram" <=> a \in 0 .. DisplayBase - 1
       /\ pong.region = "Display" <=> a \in DisplayBase .. RomBase - 1
       /\ pong.region = "Rom" <=> a \in RomBase .. LastAddress
       /\ pong.region = "Ram" => pong.offset \in 0 .. RamSize - 1
       /\ pong.region = "Display" => pong.offset \in 0 .. 3
       /\ pong.region = "Rom" => pong.offset \in 0 .. RomSize - 1
       /\ served => pong.fault \notin {"index out of bounds", "invalid display port"}

\* C17: whatever the X, Y and colour ports hold, a Draw command writes the
\* colour to exactly the cell y*WIDTH+x, which lies inside the WIDTH*HEIGHT
\* buffer and is pixel (x, y) with x < WIDTH and y < HEIGHT, and leaves
\* every other cell as it was.
C17_DrawOnePixel ==
  [][(pong'.ticks # pong.ticks /\ pong'.executed = "Draw") =>
       LET x == bus.display.port_x
           y == bus.display.port_y
           index == y * WIDTH + x
       IN /\ pong'.fault = "none"
          /\ x < WIDTH /\ y < HEIGHT
          /\ index < WIDTH * HEIGHT
          /\ bus'.display.buffer = Put(bus.display.buffer, index, bus.display.port_color)]_vars

\* C18: after every DisplayBuffer::write8 that returns, the command port
\* holds 0; a write to the command port executes the command it names
\* exactly once (Draw stores one cell, Clear zeroes the buffer, Flush makes
\* the loop present), and a write to the X, Y or colour port executes no
\* command, presents nothing and leaves the pixel buffer as it was.
C18_CommandPortCleared ==
  [][(/\ pong'.ticks # pong.ticks
      /\ pong'.fault = "none"
      /\ pong'.kind = "write"
      /\ pong'.address \in DisplayBase .. DisplayBase + 3) =>
       LET d == bus.display
           v == pong'.val
           drawn == Put(d.buffer, d.port_y * WIDTH + d.port_x, d.port_color)
       IN /\ bus'.display.port_command = 0
          /\ IF pong'.address = DisplayBase + 3
             THEN /\ v \in 0 .. 3
                  /\ pong'.executed = <<"Nop", "Draw", "Clear", "Flush">>[v + 1]
                  /\ bus'.display.buffer =
                       (IF v = 1 THEN drawn ELSE IF v = 2 THEN Zeroed ELSE d.buffer)
                  /\ pong'.presented <=> v = 3
             ELSE /\ pong'.executed = "Nop"
                  /\ bus'.display.buffer = d.buffer
                  /\ ~pong'.presented]_vars

C18_Witness ==
  /\ pong.kind = "write" /\ pong.address = DisplayBase
  /\ pong.fault = "none" /\ pong.executed = "Nop"
  /\ bus.display.buffer # Zeroed
  /\ bus.display.port_command = 0

\* C19: the main loop presents the buffer in an iteration if and only if
\* the instruction of that iteration wrote Flush to the command port, and
\* was_updated() leaves the flag cleared; an iteration that draws or clears
\* presents nothing.
C19_PresentIffFlush ==
  [][(pong'.ticks # pong.ticks /\ pong'.fault = "none") =>
       /\ pong'.presented <=>
            (pong'.kind = "write" /\ pong'.address = DisplayBase + 3 /\ pong'.val = 3)
       /\ ~bus'.display.was_updated]_vars

C19_Witness ==
  /\ pong.presented /\ pong.fault = "none"
  /\ pong.kind = "write" /\ pong.address = DisplayBase + 3 /\ pong.val = 3
  /\ bus.display.buffer # Zeroed
  /\ ~bus.display.was_updated

====
